---- MODULE Spec2Model ----
(***************************************************************************)
(* Notification dispatch and retry engine of LifeLine-ICT.                 *)
(*                                                                         *)
(* The model follows backend/app/services/notification_service.py and      *)
(* backend/app/repositories/notification_repository.py.  Every HTTP        *)
(* request runs in its own SQLAlchemy session (core/database.py), so a     *)
(* request handler is a process with a private identity map `session`;     *)
(* `db` is the committed content of the notifications table.  A repository *)
(* operation (get, mutate, commit, refresh) is one step; the channel call  *)
(* between two repository operations is a step of its own.                 *)
(***************************************************************************)
EXTENDS Integers, Sequences, FiniteSets, TLC

\* ---------------------------------------------------------------- bounds
MaxRecords == 1        \* notification rows ever created
MaxMaxRetries == 3     \* largest retry budget a row is created with

\* Request handlers that may run at the same time, each with its own session.
Procs == {1, 2}
Ids == 1..MaxRecords

\* ------------------------------------------------------ enums and values
None == "None"
utcnow == "utcnow"

EMAIL == "email"
SMS == "sms"

PENDING == "pending"
SENT == "sent"
DELIVERED == "delivered"
FAILED == "failed"
RETRYING == "retrying"
NotificationStatus == {PENDING, SENT, DELIVERED, FAILED, RETRYING}

LOW == "low"
MEDIUM == "medium"
HIGH == "high"
URGENT == "urgent"

DefaultMaxRetries == 3

FailedToSend == "Failed to send notification"
MaxRetriesExceeded == "Max retries exceeded"
RetryAttemptFailed == "Retry attempt failed"

\* Templates known to both channels, and one name neither channel knows.
KnownTemplates == {"welcome", "password_reset", "alert_notification", "maintenance_reminder"}
UnknownTemplate == "no_such_template"

\* What the channel call does: it returns True, returns False, or raises.
ChannelOutcomes == {"true", "false", "raise"}
ExceptionMessage == "SMTP connect call failed"

\* A recipient address, and one longer than the 255 characters that
\* NotificationCreate allows (NotificationRequest sets no limit).
Recipient == "user@example.org"
LongRecipient == "recipient of 256 characters"

\* Requests the router hands to send_notification (already shape-validated).
\* context_data is None or a mapping ("dict"); message is None or a text.
NotificationRequests ==
    { [notification_type |-> EMAIL, recipient |-> Recipient, message |-> "text",
       template_name |-> None, priority |-> MEDIUM, context_data |-> None],
      [notification_type |-> SMS, recipient |-> Recipient, message |-> None,
       template_name |-> "alert_notification", priority |-> HIGH, context_data |-> None],
      [notification_type |-> EMAIL, recipient |-> Recipient, message |-> None,
       template_name |-> UnknownTemplate, priority |-> URGENT, context_data |-> None],
      [notification_type |-> EMAIL, recipient |-> Recipient, message |-> None,
       template_name |-> "welcome", priority |-> LOW, context_data |-> "dict"] }

\* Retry budgets a row is created with.  max_retries is a column of the row
\* (default 3).  NotificationCreate carries no such field, so a request gets
\* the default; rows with another budget come from create() given an explicit
\* value, and the retry policy, which reads the column, is checked for them
\* too (on the plain e-mail request).
MaxRetriesValues == (0..MaxMaxRetries) \cup {DefaultMaxRetries}
PlainRequest ==
    [notification_type |-> EMAIL, recipient |-> Recipient, message |-> "text",
     template_name |-> None, priority |-> MEDIUM, context_data |-> None]

\* limit values of POST /notifications/retry (100 is the default)
Limits == {1, 100}

VARIABLES
    db,         \* committed rows of the notifications table: id -> row
    session,    \* per handler: identity map of its session, id -> object
    nextId,     \* next primary key the table hands out
    pc,         \* per handler: where it is in its call
    frame       \* per handler: the locals of its call

vars == <<db, session, nextId, pc, frame>>

\* ------------------------------------------------------------ the record
\* Notification(**data): status, retry_count have column defaults; message is
\* `request.message or ""`.
Notification(id, request, max_retries) ==
    [ id |-> id,
      notification_type |-> request.notification_type,
      recipient |-> request.recipient,
      message |-> IF request.message = None THEN "" ELSE request.message,
      template_name |-> request.template_name,
      priority |-> request.priority,
      context_data |-> request.context_data,
      status |-> PENDING,
      retry_count |-> 0,
      max_retries |-> max_retries,
      sent_at |-> None,
      delivered_at |-> None,
      failed_at |-> None,
      error_message |-> None,
      created_at |-> id ]

Columns == {"id", "notification_type", "recipient", "message",
            "template_name", "priority", "context_data",
            "status", "retry_count", "max_retries", "sent_at", "delivered_at",
            "failed_at", "error_message", "created_at"}

\* Locals of a call.  op: the service method running; cur: id of the
\* notification in hand (0: none); outcome/success: what the channel call did
\* and what _send_notification_async returned; cands/idx: the list fetched by
\* retry_failed_notifications and the loop position; result: ids of the
\* objects returned to the caller (<<>> for send_notification is None);
\* before: retry_count the candidate in hand had when the pass picked it up
\* (bookkeeping only); requests: the list a batch call works through;
\* inactive: the session's transaction was rolled back by a failed flush and
\* nobody has called rollback() since; limit: the limit argument of a query;
\* stats: what get_notification_stats returned (<<>>: nothing yet); client:
\* the handler's SMSService has a Twilio client; provider_calls: calls of
\* client.messages.create made by the call; probe: what test_services
\* returned (<<>>: nothing yet); to_number: the number send_sms was given, as
\* its characters; sent_to: the number handed to the provider (<<>>: none).
EmptyFrame ==
    [ op |-> "none", cur |-> 0, success |-> FALSE, outcome |-> "none",
      cands |-> <<>>, idx |-> 0, result |-> <<>>, before |-> 0,
      requests |-> <<>>, inactive |-> FALSE, limit |-> 0, stats |-> <<>>,
      client |-> FALSE, provider_calls |-> 0, probe |-> <<>>,
      to_number |-> <<>>, sent_to |-> <<>> ]

Init ==
    /\ db = <<>>
    /\ session = [p \in Procs |-> <<>>]
    /\ nextId = 1
    /\ pc = [p \in Procs |-> "idle"]
    /\ frame = [p \in Procs |-> EmptyFrame]

\* ------------------------------------------------------- record store
\* The four mutators of NotificationRepository, as changes of the object.
\* mark_notification_sent that also counts the attempt (as the failed path does).
mark_notification_sent_counting(n) ==
    [n EXCEPT !.status = SENT, !.sent_at = utcnow, !.retry_count = @ + 1]

\* mark_notification_sent that leaves sent_at alone.
mark_notification_sent_unstamped(n) ==
    [n EXCEPT !.status = SENT]

mark_notification_sent(n) ==
    [n EXCEPT !.status = SENT, !.sent_at = utcnow]

mark_notification_delivered(n) ==
    [n EXCEPT !.status = DELIVERED, !.delivered_at = utcnow]

mark_notification_failed(n, error_message) ==
    [n EXCEPT !.status = FAILED,
              !.failed_at = utcnow,
              !.error_message = error_message,
              !.retry_count = @ + 1]

\* increment_retry_count that also escalates the priority.
increment_retry_count_escalating(n) ==
    [n EXCEPT !.retry_count = @ + 1, !.status = RETRYING, !.priority = HIGH]

increment_retry_count(n) ==
    [n EXCEPT !.retry_count = @ + 1, !.status = RETRYING]

\* session.commit(): the unit of work writes the columns whose value differs
\* from the value the session loaded, and leaves the others as the table has
\* them; a pending (new) object is inserted whole.
Flush(table, id, loaded, obj) ==
    IF id \in DOMAIN table
    THEN [table EXCEPT ![id] =
            [c \in Columns |-> IF obj[c] # loaded[c] THEN obj[c] ELSE table[id][c]]]
    ELSE (id :> obj) @@ table

\* session.get(): the identity map answers when it holds the object; an
\* object it does not hold (or holds expired, after a rollback) is loaded
\* from the row.
Get(p, id) == IF id \in DOMAIN session[p] THEN session[p][id] ELSE db[id]

\* The mutator with a commit that writes every object of the session back,
\* whether it was changed or not.
CommitWholeSession(p, id, obj) ==
    /\ db' = [i \in DOMAIN db \cup {id} |->
                IF i = id THEN obj
                ELSE IF i \in DOMAIN session[p] THEN session[p][i]
                ELSE db[i]]
    /\ session' = [session EXCEPT ![p] = (id :> obj) @@ session[p]]

\* One repository mutator on behalf of handler p: get, mutate, commit,
\* refresh (the object is reloaded from the row).
Commit(p, id, obj) ==
    /\ db' = Flush(db, id, Get(p, id), obj)
    /\ session' = [session EXCEPT ![p] = (id :> db'[id]) @@ session[p]]

\* ORDER BY priority DESC: the Enum column stores the member names as
\* VARCHAR (sqlite), which sort as text: HIGH < LOW < MEDIUM < URGENT.
PrioritySortKey(priority) ==
    CASE priority = HIGH -> 1
      [] priority = LOW -> 2
      [] priority = MEDIUM -> 3
      [] priority = URGENT -> 4

\* The WHERE clause with the budget test off by one.
EligibleInclusive(n) ==
    \/ n.status = PENDING
    \/ /\ n.status = FAILED
       /\ n.retry_count <= n.max_retries

\* WHERE status = PENDING OR (status = FAILED AND retry_count < max_retries)
Eligible(n) ==
    \/ n.status = PENDING
    \/ /\ n.status = FAILED
       /\ n.retry_count < n.max_retries

\* a comes before b under ORDER BY priority DESC, created_at ASC
OrderedBefore(a, b) ==
    \/ PrioritySortKey(a.priority) > PrioritySortKey(b.priority)
    \/ /\ PrioritySortKey(a.priority) = PrioritySortKey(b.priority)
       /\ a.created_at < b.created_at

RECURSIVE OrderBy(_, _)
OrderBy(table, ids) ==
    IF ids = {} THEN <<>>
    ELSE LET first == CHOOSE i \in ids :
                        \A j \in ids \ {i} : OrderedBefore(table[i], table[j])
         IN <<first>> \o OrderBy(table, ids \ {first})

Take(seq, n) == SubSeq(seq, 1, IF n < Len(seq) THEN n ELSE Len(seq))

\* The query with the budget test left out of the WHERE clause.
get_pending_notifications_any_failed(table, limit) ==
    LET rows == OrderBy(table, {i \in DOMAIN table : table[i].status \in {PENDING, FAILED}})
    IN IF limit > 0 THEN Take(rows, limit) ELSE rows

get_pending_notifications(table, limit) ==
    LET rows == OrderBy(table, {i \in DOMAIN table : Eligible(table[i])})
    IN IF limit > 0 THEN Take(rows, limit) ELSE rows

\* ------------------------------------------------------------ channels
\* send_templated_email / send_templated_sms: an unknown template name makes
\* the channel return False before the transport is contacted; otherwise the
\* call does what the transport makes it do.
ChannelResult(n, outcome) ==
    IF n.template_name # None /\ n.template_name \notin KnownTemplates
    THEN "false"
    ELSE outcome

\* _send_email / _send_sms: the channel's boolean, False when it raised.
_send_channel(n, outcome) ==
    IF ChannelResult(n, outcome) = "raise" THEN FALSE
    ELSE ChannelResult(n, outcome) = "true"

\* _send_notification_async: dispatch on notification_type, False on any
\* exception and on an unknown type.
_send_notification_async(n, outcome) ==
    IF n.notification_type = EMAIL THEN _send_channel(n, outcome)
    ELSE IF n.notification_type = SMS THEN _send_channel(n, outcome)
    ELSE FALSE

\* ---------------------------------------------------- send_notification
\* repository.create(): the INSERT is flushed inside the handler's
\* transaction (the row is in the session, not yet in the committed table).
\* context_data is a Text column: a mapping cannot be bound to it.
CreateRaises(request) == request.context_data # None

SendCreate(p, request, max_retries) ==
    /\ pc[p] = "idle"
    /\ nextId <= MaxRecords
    /\ ~CreateRaises(request)
    /\ session' = [session EXCEPT ![p] =
                     (nextId :> Notification(nextId, request, max_retries))]
    /\ nextId' = nextId + 1
    /\ frame' = [frame EXCEPT ![p] = [EmptyFrame EXCEPT !.op = "send", !.cur = nextId]]
    /\ pc' = [pc EXCEPT ![p] = "send_deliver"]
    /\ UNCHANGED db

\* create() raised: the except clause returns None, no row exists.
SendCreateRaises(p, request) ==
    /\ pc[p] = "idle"
    /\ CreateRaises(request)
    /\ frame' = [frame EXCEPT ![p] = [EmptyFrame EXCEPT !.op = "send"]]
    /\ pc' = [pc EXCEPT ![p] = "send_return"]
    /\ UNCHANGED <<db, session, nextId>>

\* The delivery step without the except clauses of _send_email / _send_sms /
\* _send_notification_async: a raising channel ends the call in
\* send_notification's own except clause, which returns None.
SendDeliverPropagates(p, outcome) ==
    /\ pc[p] = "send_deliver"
    /\ LET n == session[p][frame[p].cur]
       IN IF ChannelResult(n, outcome) = "raise"
          THEN /\ frame' = [frame EXCEPT ![p].outcome = "raise"]
               /\ pc' = [pc EXCEPT ![p] = "send_return"]
          ELSE /\ frame' = [frame EXCEPT ![p].outcome = ChannelResult(n, outcome),
                                         ![p].success = _send_notification_async(n, outcome)]
               /\ pc' = [pc EXCEPT ![p] = "send_mark"]
    /\ UNCHANGED <<db, session, nextId>>

SendDeliver(p, outcome) ==
    /\ pc[p] = "send_deliver"
    /\ LET n == session[p][frame[p].cur]
       IN frame' = [frame EXCEPT ![p].outcome = ChannelResult(n, outcome),
                                 ![p].success = _send_notification_async(n, outcome)]
    /\ pc' = [pc EXCEPT ![p] = "send_mark"]
    /\ UNCHANGED <<db, session, nextId>>

SendMark(p) ==
    /\ pc[p] = "send_mark"
    /\ LET id == frame[p].cur
           n == Get(p, id)
       IN IF frame[p].success
          THEN Commit(p, id, mark_notification_sent(n))
          ELSE Commit(p, id, mark_notification_failed(n, FailedToSend))
    /\ frame' = [frame EXCEPT ![p].result = <<frame[p].cur>>]
    /\ pc' = [pc EXCEPT ![p] = "send_return"]
    /\ UNCHANGED nextId

\* The handler returns; the request's session is closed.
SendReturn(p) ==
    /\ pc[p] = "send_return"
    /\ pc' = [pc EXCEPT ![p] = "idle"]
    /\ frame' = [frame EXCEPT ![p] = EmptyFrame]
    /\ session' = [session EXCEPT ![p] = <<>>]
    /\ UNCHANGED <<db, nextId>>

\* -------------------------------------------- retry_failed_notifications
RetryFetch(p, limit) ==
    /\ pc[p] = "idle"
    /\ LET cands == get_pending_notifications(db, limit)
           ids == {cands[k] : k \in 1..Len(cands)}
       IN /\ session' = [session EXCEPT ![p] = [i \in ids |-> db[i]]]
          /\ frame' = [frame EXCEPT ![p] =
                         [EmptyFrame EXCEPT !.op = "retry", !.cands = cands, !.idx = 1]]
    /\ pc' = [pc EXCEPT ![p] = "retry_loop"]
    /\ UNCHANGED <<db, nextId>>

RetryIncrement(p) ==
    /\ pc[p] = "retry_loop"
    /\ frame[p].idx <= Len(frame[p].cands)
    /\ LET id == frame[p].cands[frame[p].idx]
       IN /\ Commit(p, id, increment_retry_count(Get(p, id)))
          /\ frame' = [frame EXCEPT ![p].cur = id,
                                    ![p].before = Get(p, id).retry_count]
    /\ pc' = [pc EXCEPT ![p] = "retry_deliver"]
    /\ UNCHANGED nextId

RetryDeliver(p, outcome) ==
    /\ pc[p] = "retry_deliver"
    /\ LET n == session[p][frame[p].cur]
       IN frame' = [frame EXCEPT ![p].outcome = ChannelResult(n, outcome),
                                 ![p].success = _send_notification_async(n, outcome)]
    /\ pc' = [pc EXCEPT ![p] = "retry_mark"]
    /\ UNCHANGED <<db, session, nextId>>

\* The error text of a failed retry, decided on the object in hand.
RetryErrorMessage(n) ==
    IF n.retry_count >= n.max_retries THEN MaxRetriesExceeded ELSE RetryAttemptFailed

RetryMark(p) ==
    /\ pc[p] = "retry_mark"
    /\ LET id == frame[p].cur
           n == Get(p, id)
       IN IF frame[p].success
          THEN Commit(p, id, mark_notification_sent(n))
          ELSE Commit(p, id, mark_notification_failed(n, RetryErrorMessage(n)))
    /\ pc' = [pc EXCEPT ![p] = "retry_append"]
    /\ UNCHANGED <<nextId, frame>>

\* retried_notifications.append(notification), then the next candidate.
RetryAppend(p) ==
    /\ pc[p] = "retry_append"
    /\ frame' = [frame EXCEPT ![p].result = Append(@, frame[p].cur),
                              ![p].idx = @ + 1, ![p].cur = 0, ![p].before = 0,
                              ![p].outcome = "none", ![p].success = FALSE]
    /\ pc' = [pc EXCEPT ![p] = "retry_loop"]
    /\ UNCHANGED <<db, session, nextId>>

RetryReturn(p) ==
    /\ pc[p] = "retry_loop"
    /\ frame[p].idx > Len(frame[p].cands)
    /\ pc' = [pc EXCEPT ![p] = "idle"]
    /\ frame' = [frame EXCEPT ![p] = EmptyFrame]
    /\ session' = [session EXCEPT ![p] = <<>>]
    /\ UNCHANGED <<db, nextId>>

\* ------------------------------------------------------- specification
\* One step of handler p.
Step(p) ==
    \/ \E request \in NotificationRequests : SendCreate(p, request, DefaultMaxRetries)
    \/ \E m \in MaxRetriesValues : SendCreate(p, PlainRequest, m)
    \/ \E request \in NotificationRequests : SendCreateRaises(p, request)
    \/ \E outcome \in ChannelOutcomes : SendDeliver(p, outcome)
    \/ SendMark(p)
    \/ SendReturn(p)
    \/ \E limit \in Limits : RetryFetch(p, limit)
    \/ RetryIncrement(p)
    \/ \E outcome \in ChannelOutcomes : RetryDeliver(p, outcome)
    \/ RetryMark(p)
    \/ RetryAppend(p)
    \/ RetryReturn(p)

\* Handlers of concurrent requests interleave at their steps.
Next == \E p \in Procs : Step(p)

Spec == Init /\ [][Next]_vars

\* --------------------------------------------------------- store faults
\* A repository mutator issues two statements after changing the object:
\* session.commit() and session.refresh().  The store can fail at either.
\*   commit_raises : the transaction is rolled back; the row keeps what it
\*                   had (a row inserted by this transaction is gone) and
\*                   the session's objects are expired.
\*   refresh_raises: the change is committed, the reload fails; the object
\*                   keeps the values it was given in memory.
StoreFaults == {"commit_raises", "refresh_raises"}

CommitFails(p, id, obj, fault) ==
    IF fault = "commit_raises"
    THEN /\ db' = db
         /\ session' = [session EXCEPT ![p] = <<>>]
    ELSE /\ db' = Flush(db, id, Get(p, id), obj)
         /\ session' = [session EXCEPT ![p] = (id :> obj) @@ session[p]]

\* create(): session.flush() raises for a reason of the store's; as with a
\* value that cannot be bound, send_notification returns None.
SendCreateFails(p) ==
    /\ pc[p] = "idle"
    /\ frame' = [frame EXCEPT ![p] = [EmptyFrame EXCEPT !.op = "send"]]
    /\ pc' = [pc EXCEPT ![p] = "send_return"]
    /\ UNCHANGED <<db, session, nextId>>

\* mark_notification_sent / mark_notification_failed raises inside
\* send_notification: the except clause returns None.
SendMarkFails(p, fault) ==
    /\ pc[p] = "send_mark"
    /\ LET id == frame[p].cur
           n == Get(p, id)
       IN IF frame[p].success
          THEN CommitFails(p, id, mark_notification_sent(n), fault)
          ELSE CommitFails(p, id, mark_notification_failed(n, FailedToSend), fault)
    /\ pc' = [pc EXCEPT ![p] = "send_return"]
    /\ UNCHANGED <<nextId, frame>>

\* increment_retry_count raises inside the loop of
\* retry_failed_notifications: the except clause logs and goes on to the next
\* candidate, without appending this one.
RetryIncrementFails(p, fault) ==
    /\ pc[p] = "retry_loop"
    /\ frame[p].idx <= Len(frame[p].cands)
    /\ LET id == frame[p].cands[frame[p].idx]
       IN CommitFails(p, id, increment_retry_count(Get(p, id)), fault)
    /\ frame' = [frame EXCEPT ![p].idx = @ + 1]
    /\ UNCHANGED <<nextId, pc>>

\* mark_notification_sent / mark_notification_failed raises inside the loop.
RetryMarkFails(p, fault) ==
    /\ pc[p] = "retry_mark"
    /\ LET id == frame[p].cur
           n == Get(p, id)
       IN IF frame[p].success
          THEN CommitFails(p, id, mark_notification_sent(n), fault)
          ELSE CommitFails(p, id, mark_notification_failed(n, RetryErrorMessage(n)), fault)
    /\ frame' = [frame EXCEPT ![p].idx = @ + 1, ![p].cur = 0, ![p].before = 0,
                              ![p].outcome = "none", ![p].success = FALSE]
    /\ pc' = [pc EXCEPT ![p] = "retry_loop"]
    /\ UNCHANGED nextId

FaultStep(p) ==
    \/ SendCreateFails(p)
    \/ \E fault \in StoreFaults : SendMarkFails(p, fault)
    \/ \E fault \in StoreFaults : RetryIncrementFails(p, fault)
    \/ \E fault \in StoreFaults : RetryMarkFails(p, fault)

\* The handlers over a store that can fail.
NextFaults == \E p \in Procs : Step(p) \/ FaultStep(p)

SpecFaults == Init /\ [][NextFaults]_vars

\* ------------------------- send_bulk_notifications, send_alert_notification
\* Both are loops that call send_notification once per item, in one session,
\* and collect what it returns.
MaxBatch == 3          \* requests in one bulk call; rows a batch spec creates
MaxRecipients == 2     \* recipients of one alert

\* The handler that runs the batch calls.
BatchProcs == {1}

\* A request NotificationCreate refuses (recipient over max_length): the
\* ValidationError is raised before the session is touched.
InvalidRequest == [PlainRequest EXCEPT !.recipient = LongRecipient]

ValidationFails(request) == request.recipient = LongRecipient

BulkRequests == NotificationRequests \cup {InvalidRequest}

RECURSIVE SeqsUpTo(_, _)
SeqsUpTo(S, n) ==
    IF n = 0 THEN {<<>>}
    ELSE LET shorter == SeqsUpTo(S, n - 1)
         IN shorter \cup {Append(q, x) : q \in shorter, x \in S}

\* The request send_email_notification / send_sms_notification builds for one
\* (recipient, channel) pair of an alert: context is alert_data, a dict.
AlertRequest(recipient, notification_type) ==
    [notification_type |-> notification_type, recipient |-> recipient, message |-> "",
     template_name |-> "alert_notification", priority |-> HIGH, context_data |-> "dict"]

\* for recipient in recipients: for notification_type in notification_types
RECURSIVE AlertRequests(_, _)
AlertRequests(recipients, notification_types) ==
    IF recipients = <<>> THEN <<>>
    ELSE [k \in 1..Len(notification_types) |->
             AlertRequest(Head(recipients), notification_types[k])]
         \o AlertRequests(Tail(recipients), notification_types)

AlertRecipients == SeqsUpTo({Recipient, "+256700000001"}, MaxRecipients) \ {<<>>}
AlertTypes == {<<EMAIL>>, <<SMS>>, <<EMAIL, SMS>>, <<SMS, EMAIL>>}

BulkStart(p, requests) ==
    /\ pc[p] = "idle"
    /\ nextId + Len(requests) - 1 <= MaxBatch
    /\ frame' = [frame EXCEPT ![p] =
                   [EmptyFrame EXCEPT !.op = "bulk", !.requests = requests, !.idx = 1]]
    /\ pc' = [pc EXCEPT ![p] = "batch_loop"]
    /\ UNCHANGED <<db, session, nextId>>

AlertStart(p, recipients, notification_types) ==
    /\ pc[p] = "idle"
    /\ frame' = [frame EXCEPT ![p] =
                   [EmptyFrame EXCEPT !.op = "alert",
                                      !.requests = AlertRequests(recipients, notification_types),
                                      !.idx = 1]]
    /\ pc' = [pc EXCEPT ![p] = "batch_loop"]
    /\ UNCHANGED <<db, session, nextId>>

\* send_notification for the item in hand, up to create(): the flush succeeds.
BatchCreate(p) ==
    /\ pc[p] = "batch_loop"
    /\ frame[p].idx <= Len(frame[p].requests)
    /\ LET request == frame[p].requests[frame[p].idx]
       IN /\ ~ValidationFails(request)
          /\ ~frame[p].inactive
          /\ ~CreateRaises(request)
          /\ session' = [session EXCEPT ![p] =
                           (nextId :> Notification(nextId, request, DefaultMaxRetries))
                           @@ session[p]]
    /\ nextId' = nextId + 1
    /\ frame' = [frame EXCEPT ![p].cur = nextId]
    /\ pc' = [pc EXCEPT ![p] = "batch_deliver"]
    /\ UNCHANGED db

\* send_notification returns None for the item in hand: NotificationCreate
\* refuses it, or the flush in create() raises, because of the value it
\* cannot bind or because the session's transaction is inactive.  A failed
\* flush leaves the transaction inactive; send_notification's except clause
\* does not roll back.
BatchCreateRaises(p) ==
    /\ pc[p] = "batch_loop"
    /\ frame[p].idx <= Len(frame[p].requests)
    /\ LET request == frame[p].requests[frame[p].idx]
       IN /\ ValidationFails(request) \/ frame[p].inactive \/ CreateRaises(request)
          /\ frame' = [frame EXCEPT ![p].idx = @ + 1,
                                    ![p].inactive = @ \/ ~ValidationFails(request)]
    /\ UNCHANGED <<db, session, nextId, pc>>

BatchDeliver(p, outcome) ==
    /\ pc[p] = "batch_deliver"
    /\ LET n == session[p][frame[p].cur]
       IN frame' = [frame EXCEPT ![p].outcome = ChannelResult(n, outcome),
                                 ![p].success = _send_notification_async(n, outcome)]
    /\ pc' = [pc EXCEPT ![p] = "batch_mark"]
    /\ UNCHANGED <<db, session, nextId>>

\* mark_notification_sent / mark_notification_failed, send_notification
\* returns the record and the batch appends it.
BatchMark(p) ==
    /\ pc[p] = "batch_mark"
    /\ LET id == frame[p].cur
           n == Get(p, id)
       IN IF frame[p].success
          THEN Commit(p, id, mark_notification_sent(n))
          ELSE Commit(p, id, mark_notification_failed(n, FailedToSend))
    /\ frame' = [frame EXCEPT ![p].result = Append(@, frame[p].cur),
                              ![p].idx = @ + 1, ![p].cur = 0,
                              ![p].outcome = "none", ![p].success = FALSE]
    /\ pc' = [pc EXCEPT ![p] = "batch_loop"]
    /\ UNCHANGED nextId

BatchReturn(p) ==
    /\ pc[p] = "batch_loop"
    /\ frame[p].idx > Len(frame[p].requests)
    /\ pc' = [pc EXCEPT ![p] = "idle"]
    /\ frame' = [frame EXCEPT ![p] = EmptyFrame]
    /\ session' = [session EXCEPT ![p] = <<>>]
    /\ UNCHANGED <<db, nextId>>

BatchStep(p) ==
    \/ \E requests \in SeqsUpTo(BulkRequests, MaxBatch) \ {<<>>} : BulkStart(p, requests)
    \/ \E recipients \in AlertRecipients, notification_types \in AlertTypes :
          AlertStart(p, recipients, notification_types)
    \/ BatchCreate(p)
    \/ BatchCreateRaises(p)
    \/ \E outcome \in ChannelOutcomes : BatchDeliver(p, outcome)
    \/ BatchMark(p)
    \/ BatchReturn(p)

NextBatch == \E p \in BatchProcs : BatchStep(p)

SpecBatch == Init /\ [][NextBatch]_vars

\* ------------------------------------------------- POST /notifications/send
\* The body of the request as the client sent it: a field is present or
\* missing (None).  FastAPI parses it into NotificationRequest before the
\* handler runs.
Payloads ==
    [ notification_type : {None, EMAIL, SMS},
      recipient : {None, Recipient},
      message : {None, "text"},
      template_name : {None, "welcome"},
      priority : {MEDIUM},
      context_data : {None} ]

ApiProcs == {1}

\* NotificationRequest: notification_type and recipient are required
\* (Field(...)); every other field is optional and there is no validator.
NotificationRequest(payload) ==
    payload.notification_type \in {EMAIL, SMS} /\ payload.recipient # None

\* The body does not parse: the router answers 422, the handler never runs.
ApiSendRejected(p, payload) ==
    /\ pc[p] = "idle"
    /\ ~NotificationRequest(payload)
    /\ frame' = [frame EXCEPT ![p] =
                   [EmptyFrame EXCEPT !.op = "send", !.requests = <<payload>>]]
    /\ pc' = [pc EXCEPT ![p] = "send_return"]
    /\ UNCHANGED <<db, session, nextId>>

\* The body parses; the handler calls send_notification, which creates the
\* record.
ApiSendCreate(p, payload) ==
    /\ pc[p] = "idle"
    /\ NotificationRequest(payload)
    /\ nextId <= MaxRecords
    /\ ~ValidationFails(payload)
    /\ ~CreateRaises(payload)
    /\ session' = [session EXCEPT ![p] =
                     (nextId :> Notification(nextId, payload, DefaultMaxRetries))]
    /\ nextId' = nextId + 1
    /\ frame' = [frame EXCEPT ![p] =
                   [EmptyFrame EXCEPT !.op = "send", !.cur = nextId,
                                      !.requests = <<payload>>]]
    /\ pc' = [pc EXCEPT ![p] = "send_deliver"]
    /\ UNCHANGED db

ApiStep(p) ==
    \/ \E payload \in Payloads : ApiSendRejected(p, payload)
    \/ \E payload \in Payloads : ApiSendCreate(p, payload)
    \/ \E outcome \in ChannelOutcomes : SendDeliver(p, outcome)
    \/ SendMark(p)
    \/ SendReturn(p)

NextApi == \E p \in ApiProcs : ApiStep(p)

SpecApi == Init /\ [][NextApi]_vars

\* ------------------------------------------ get_pending_notifications
\* The query by itself, over tables drawn from the rows the store can hold.
MaxRows == 2           \* rows of a drawn table

\* (status, retry_count) of a row with the default budget: never attempted;
\* sent at once or on the first retry; delivered; failed once; failed with
\* the budget used up; in the hands of a retry pass.
RowStates ==
    { <<PENDING, 0>>, <<SENT, 0>>, <<SENT, 2>>, <<DELIVERED, 0>>,
      <<FAILED, 1>>, <<FAILED, 3>>, <<RETRYING, 2>> }

Priorities == {LOW, MEDIUM, HIGH, URGENT}

Row(id, state, priority) ==
    [Notification(id, [PlainRequest EXCEPT !.priority = priority], DefaultMaxRetries)
        EXCEPT !.status = state[1], !.retry_count = state[2]]

\* The table of the rows f describes; ids (and creation times) ascend.
Table(f) == [id \in DOMAIN f |-> Row(id, f[id][1], f[id][2])]

QueryLimits == {1, 2, 100}

QueryProcs == {1}

InitQuery ==
    /\ \E n \in 0..MaxRows :
          \E f \in [1..n -> RowStates \X Priorities] : db = Table(f)
    /\ session = [p \in Procs |-> <<>>]
    /\ nextId = Len(db) + 1
    /\ pc = [p \in Procs |-> "idle"]
    /\ frame = [p \in Procs |-> EmptyFrame]

QueryPending(p, limit) ==
    /\ pc[p] = "idle"
    /\ frame' = [frame EXCEPT ![p] =
                   [EmptyFrame EXCEPT !.op = "query", !.limit = limit,
                                      !.cands = get_pending_notifications(db, limit)]]
    /\ pc' = [pc EXCEPT ![p] = "query_return"]
    /\ UNCHANGED <<db, session, nextId>>

QueryReturn(p) ==
    /\ pc[p] = "query_return"
    /\ frame' = [frame EXCEPT ![p] = EmptyFrame]
    /\ pc' = [pc EXCEPT ![p] = "idle"]
    /\ UNCHANGED <<db, session, nextId>>

NextQuery ==
    \E p \in QueryProcs :
        \/ \E limit \in QueryLimits : QueryPending(p, limit)
        \/ QueryReturn(p)

SpecQuery == InitQuery /\ [][NextQuery]_vars

\* ---------------------------------------------- get_notification_stats
MaxStatsRows == 10     \* rows of a table the statistics are taken over

\* Kinds of rows the statistics tell apart: (status, channel, retry_count).
StatsKinds ==
    << <<FAILED, EMAIL, 1>>, <<SENT, EMAIL, 0>>, <<SENT, SMS, 2>>,
       <<PENDING, SMS, 0>>, <<RETRYING, EMAIL, 2>> >>

StatsRow(id, kind) ==
    [Notification(id, [PlainRequest EXCEPT !.notification_type = kind[2]], DefaultMaxRetries)
        EXCEPT !.status = kind[1], !.retry_count = kind[3]]

\* counts[k] rows of kind k, one kind after the other.
RECURSIVE KindsOf(_, _)
KindsOf(counts, k) ==
    IF k > Len(StatsKinds) THEN <<>>
    ELSE [i \in 1..counts[k] |-> StatsKinds[k]] \o KindsOf(counts, k + 1)

RECURSIVE Sum(_, _)
Sum(counts, k) == IF k = 0 THEN 0 ELSE counts[k] + Sum(counts, k - 1)

StatsTables ==
    { [id \in 1..Len(KindsOf(counts, 1)) |-> StatsRow(id, KindsOf(counts, 1)[id])] :
        counts \in {c \in [1..Len(StatsKinds) -> 0..MaxStatsRows] :
                        Sum(c, Len(StatsKinds)) <= MaxStatsRows} }

RECURSIVE GCD(_, _)
GCD(a, b) == IF b = 0 THEN a ELSE GCD(b, a % b)

\* A quotient, kept exact as <<numerator, denominator>> in lowest terms (the
\* rounding of the float is left out).
Quotient(a, b) == <<a \div GCD(a, b), b \div GCD(a, b)>>

\* The statistics with the retry query counting retry_count > 1.
get_notification_stats_retried_twice(table) ==
    LET total == Cardinality(DOMAIN table)
        retry_count == Cardinality({i \in DOMAIN table : table[i].retry_count > 1})
    IN [ total_notifications |-> total,
         status_counts |-> [st \in {table[i].status : i \in DOMAIN table} |->
                              Cardinality({i \in DOMAIN table : table[i].status = st})],
         type_counts |-> [t \in {table[i].notification_type : i \in DOMAIN table} |->
                            Cardinality({i \in DOMAIN table : table[i].notification_type = t})],
         retry_rate |-> IF total > 0 THEN Quotient(retry_count * 100, total) ELSE Quotient(0, 1) ]

\* NotificationRepository.get_notification_stats: COUNT(id); COUNT GROUP BY
\* status; COUNT GROUP BY notification_type; COUNT WHERE retry_count > 0;
\* retry_rate = retry_count / total * 100 if total > 0 else 0.  The four
\* queries are taken to see one state of the table.
get_notification_stats(table) ==
    LET total == Cardinality(DOMAIN table)
        retry_count == Cardinality({i \in DOMAIN table : table[i].retry_count > 0})
    IN [ total_notifications |-> total,
         status_counts |-> [st \in {table[i].status : i \in DOMAIN table} |->
                              Cardinality({i \in DOMAIN table : table[i].status = st})],
         type_counts |-> [t \in {table[i].notification_type : i \in DOMAIN table} |->
                            Cardinality({i \in DOMAIN table : table[i].notification_type = t})],
         retry_rate |-> IF total > 0 THEN Quotient(retry_count * 100, total) ELSE Quotient(0, 1) ]

\* dict.get(key, 0)
GetOrZero(counts, key) == IF key \in DOMAIN counts THEN counts[key] ELSE 0

\* NotificationService.get_notification_stats: the reshaped statistics.
NotificationStats(stats_data) ==
    [ total_notifications |-> stats_data.total_notifications,
      pending_notifications |-> GetOrZero(stats_data.status_counts, PENDING),
      sent_notifications |-> GetOrZero(stats_data.status_counts, SENT),
      failed_notifications |-> GetOrZero(stats_data.status_counts, FAILED),
      email_notifications |-> GetOrZero(stats_data.type_counts, EMAIL),
      sms_notifications |-> GetOrZero(stats_data.type_counts, SMS),
      retry_rate |-> stats_data.retry_rate ]

StatsProcs == {1}

InitStats ==
    /\ db \in StatsTables
    /\ session = [p \in Procs |-> <<>>]
    /\ nextId = Len(db) + 1
    /\ pc = [p \in Procs |-> "idle"]
    /\ frame = [p \in Procs |-> EmptyFrame]

GetStats(p) ==
    /\ pc[p] = "idle"
    /\ frame' = [frame EXCEPT ![p] =
                   [EmptyFrame EXCEPT !.op = "stats",
                                      !.stats = NotificationStats(get_notification_stats(db))]]
    /\ pc' = [pc EXCEPT ![p] = "stats_return"]
    /\ UNCHANGED <<db, session, nextId>>

StatsReturn(p) ==
    /\ pc[p] = "stats_return"
    /\ frame' = [frame EXCEPT ![p] = EmptyFrame]
    /\ pc' = [pc EXCEPT ![p] = "idle"]
    /\ UNCHANGED <<db, session, nextId>>

NextStats == \E p \in StatsProcs : GetStats(p) \/ StatsReturn(p)

SpecStats == InitStats /\ [][NextStats]_vars

\* ------------------------------------------------------ the SMS channel
\* SMSService.__init__: the handler's service has a client only if the
\* twilio library is importable and account_sid and auth_token are set.
SmsRequests ==
    { [notification_type |-> SMS, recipient |-> "+256700000001", message |-> "text",
       template_name |-> None, priority |-> MEDIUM, context_data |-> None],
      [notification_type |-> SMS, recipient |-> "+256700000001", message |-> None,
       template_name |-> "alert_notification", priority |-> HIGH, context_data |-> None],
      [notification_type |-> SMS, recipient |-> "+256700000001", message |-> None,
       template_name |-> UnknownTemplate, priority |-> MEDIUM, context_data |-> None],
      [notification_type |-> SMS, recipient |-> "+256700000001", message |-> None,
       template_name |-> "alert_notification", priority |-> HIGH, context_data |-> "dict"] }

SmsProcs == Procs

\* SMSService.send_sms: False at once without a client; otherwise what
\* client.messages.create makes of it (an exception gives False).
send_sms(client, outcome) == IF ~client THEN "false" ELSE outcome

\* SMSService.send_templated_sms: the template is looked up and rendered
\* first; an unknown name gives False.
send_templated_sms(n, client, outcome) ==
    IF n.template_name \notin KnownTemplates THEN "false" ELSE send_sms(client, outcome)

\* NotificationService._send_sms
_send_sms(n, client, outcome) ==
    IF n.template_name # None THEN send_templated_sms(n, client, outcome)
    ELSE send_sms(client, outcome)

\* client.messages.create is reached.
ProviderCalled(n, client) ==
    client /\ (n.template_name = None \/ n.template_name \in KnownTemplates)

SmsSendCreate(p, request, client) ==
    /\ pc[p] = "idle"
    /\ nextId <= MaxRecords
    /\ ~CreateRaises(request)
    /\ session' = [session EXCEPT ![p] =
                     (nextId :> Notification(nextId, request, DefaultMaxRetries))]
    /\ nextId' = nextId + 1
    /\ frame' = [frame EXCEPT ![p] =
                   [EmptyFrame EXCEPT !.op = "send", !.cur = nextId,
                                      !.requests = <<request>>, !.client = client]]
    /\ pc' = [pc EXCEPT ![p] = "sms_deliver"]
    /\ UNCHANGED db

SmsSendCreateRaises(p, request, client) ==
    /\ pc[p] = "idle"
    /\ CreateRaises(request)
    /\ frame' = [frame EXCEPT ![p] =
                   [EmptyFrame EXCEPT !.op = "send", !.requests = <<request>>,
                                      !.client = client]]
    /\ pc' = [pc EXCEPT ![p] = "send_return"]
    /\ UNCHANGED <<db, session, nextId>>

SmsDeliver(p, outcome) ==
    /\ pc[p] = "sms_deliver"
    /\ LET n == session[p][frame[p].cur]
           sent == _send_sms(n, frame[p].client, outcome)
       IN frame' = [frame EXCEPT
                      ![p].outcome = sent,
                      ![p].success = (sent = "true"),
                      ![p].provider_calls =
                          IF ProviderCalled(n, frame[p].client) THEN @ + 1 ELSE @]
    /\ pc' = [pc EXCEPT ![p] = "send_mark"]
    /\ UNCHANGED <<db, session, nextId>>

\* NotificationService.test_services: EmailService.test_connection gives
\* whether the SMTP connect worked; SMSService.test_connection gives False
\* without a client, else whether the account fetch says 'active'.
TestServices(p, client, smtp, account) ==
    /\ pc[p] = "idle"
    /\ frame' = [frame EXCEPT ![p] =
                   [EmptyFrame EXCEPT !.op = "test", !.client = client,
                       !.probe = [email_service |-> (smtp = "true"),
                                  sms_service |-> IF ~client THEN FALSE
                                                  ELSE account = "true"]]]
    /\ pc' = [pc EXCEPT ![p] = "test_return"]
    /\ UNCHANGED <<db, session, nextId>>

TestReturn(p) ==
    /\ pc[p] = "test_return"
    /\ frame' = [frame EXCEPT ![p] = EmptyFrame]
    /\ pc' = [pc EXCEPT ![p] = "idle"]
    /\ UNCHANGED <<db, session, nextId>>

SmsStep(p) ==
    \/ \E request \in SmsRequests, client \in BOOLEAN : SmsSendCreate(p, request, client)
    \/ \E request \in SmsRequests, client \in BOOLEAN : SmsSendCreateRaises(p, request, client)
    \/ \E outcome \in ChannelOutcomes : SmsDeliver(p, outcome)
    \/ SendMark(p)
    \/ SendReturn(p)
    \/ \E client \in BOOLEAN, smtp \in ChannelOutcomes, account \in ChannelOutcomes :
          TestServices(p, client, smtp, account)
    \/ TestReturn(p)

NextSms == \E p \in SmsProcs : SmsStep(p)

SpecSms == Init /\ [][NextSms]_vars

\* ------------------------------------------------- templates and transport
\* The send path for both channels, with the calls of the transport counted
\* (aiosmtplib for e-mail, client.messages.create for SMS).
TemplateRequests ==
    { [notification_type |-> EMAIL, recipient |-> Recipient, message |-> None,
       template_name |-> UnknownTemplate, priority |-> MEDIUM, context_data |-> None],
      [notification_type |-> SMS, recipient |-> "+256700000001", message |-> None,
       template_name |-> UnknownTemplate, priority |-> MEDIUM, context_data |-> None],
      [notification_type |-> EMAIL, recipient |-> Recipient, message |-> None,
       template_name |-> UnknownTemplate, priority |-> MEDIUM, context_data |-> "dict"],
      [notification_type |-> EMAIL, recipient |-> Recipient, message |-> None,
       template_name |-> "welcome", priority |-> MEDIUM, context_data |-> None],
      [notification_type |-> SMS, recipient |-> "+256700000001", message |-> "text",
       template_name |-> None, priority |-> MEDIUM, context_data |-> None] }

\* EmailService.send_email: what the SMTP exchange makes of it.
send_email(outcome) == outcome

\* EmailService.send_templated_email: the template is looked up first; an
\* unknown name gives False.
send_templated_email(n, outcome) ==
    IF n.template_name \notin KnownTemplates THEN "false" ELSE send_email(outcome)

\* NotificationService._send_email
_send_email(n, outcome) ==
    IF n.template_name # None THEN send_templated_email(n, outcome)
    ELSE send_email(outcome)

\* _send_smtp_email is reached.
SmtpCalled(n) == n.template_name = None \/ n.template_name \in KnownTemplates

\* success = await self._send_notification_async(notification), by channel.
TemplateDeliver(p, outcome) ==
    /\ pc[p] = "sms_deliver"
    /\ LET n == session[p][frame[p].cur]
           sent == IF n.notification_type = EMAIL THEN _send_email(n, outcome)
                   ELSE _send_sms(n, frame[p].client, outcome)
           called == IF n.notification_type = EMAIL THEN SmtpCalled(n)
                     ELSE ProviderCalled(n, frame[p].client)
       IN frame' = [frame EXCEPT
                      ![p].outcome = sent,
                      ![p].success = (sent = "true"),
                      ![p].provider_calls = IF called THEN @ + 1 ELSE @]
    /\ pc' = [pc EXCEPT ![p] = "send_mark"]
    /\ UNCHANGED <<db, session, nextId>>

TemplateStep(p) ==
    \/ \E request \in TemplateRequests, client \in BOOLEAN : SmsSendCreate(p, request, client)
    \/ \E request \in TemplateRequests, client \in BOOLEAN : SmsSendCreateRaises(p, request, client)
    \/ \E outcome \in ChannelOutcomes : TemplateDeliver(p, outcome)
    \/ SendMark(p)
    \/ SendReturn(p)

NextTemplate == \E p \in Procs : TemplateStep(p)

SpecTemplate == Init /\ [][NextTemplate]_vars

\* --------------------------------------------------- SMSService.send_sms
\* Phone numbers are sequences of characters.
MaxDigits == 10        \* length of the run of digits in a drawn number

Digits == {"0", "1", "2", "3", "4", "5", "6", "7", "8", "9"}

RECURSIVE Repeat(_, _)
Repeat(c, k) == IF k = 0 THEN <<>> ELSE <<c>> \o Repeat(c, k - 1)

\* How a drawn number starts and ends: nothing, a trunk zero, a plus, the
\* country code in its spellings, letters, separators.
PhonePrefixes ==
    { <<>>, <<"0">>, <<"+">>, <<"2", "5", "6">>, <<"+", "2", "5", "6">>,
      <<"0", "2", "5", "6">>, <<"0", "0">>, <<"a", "b", "c">>, <<"(", "0", ")", " ">> }

PhoneSuffixes == { <<>>, <<"-", "7">>, <<"x">> }

\* "0700000000" and "+256700000000"
LocalNumber == <<"0", "7">> \o Repeat("0", 8)
InternationalNumber == <<"+", "2", "5", "6", "7">> \o Repeat("0", 8)

PhoneNumbers ==
    { pre \o Repeat("7", k) \o suf :
        pre \in PhonePrefixes, k \in 0..MaxDigits, suf \in PhoneSuffixes }
    \cup {LocalNumber, InternationalNumber}

IsDigit(c) == c \in Digits

StartsWith(s, prefix) ==
    Len(s) >= Len(prefix) /\ SubSeq(s, 1, Len(prefix)) = prefix

\* The cleaning without the test of the length.
_clean_phone_number_any_length(phone_number) ==
    LET digits == SelectSeq(phone_number, IsDigit)
        local == IF StartsWith(digits, <<"0">>) THEN Tail(digits) ELSE digits
        cleaned == IF ~StartsWith(local, <<"2", "5", "6">>) /\ Len(local) = 9
                   THEN <<"2", "5", "6">> \o local
                   ELSE local
    IN <<"+">> \o cleaned

\* SMSService._clean_phone_number: re.sub(r'\D', '', ...), drop one leading
\* zero, put 256 before a 9-digit number that does not start with it, and
\* give '+' and the digits if there are 10 or more; None (here <<>>) if not.
_clean_phone_number(phone_number) ==
    LET digits == SelectSeq(phone_number, IsDigit)
        local == IF StartsWith(digits, <<"0">>) THEN Tail(digits) ELSE digits
        cleaned == IF ~StartsWith(local, <<"2", "5", "6">>) /\ Len(local) = 9
                   THEN <<"2", "5", "6">> \o local
                   ELSE local
    IN IF Len(cleaned) >= 10 THEN <<"+">> \o cleaned ELSE <<>>

\* SMSService.send_sms(to_number, message): False without a client; False if
\* the number does not clean; else client.messages.create(to=cleaned), True
\* if it returns and False if it raises.
SendSms(p, to_number, client, outcome) ==
    /\ pc[p] = "idle"
    /\ LET cleaned == _clean_phone_number(to_number)
           called == client /\ cleaned # <<>>
       IN frame' = [frame EXCEPT ![p] =
                      [EmptyFrame EXCEPT
                          !.op = "send_sms", !.to_number = to_number, !.client = client,
                          !.provider_calls = IF called THEN 1 ELSE 0,
                          !.sent_to = IF called THEN cleaned ELSE <<>>,
                          !.outcome = IF called THEN outcome ELSE "false",
                          !.success = called /\ outcome = "true"]]
    /\ pc' = [pc EXCEPT ![p] = "sms_return"]
    /\ UNCHANGED <<db, session, nextId>>

SmsReturn(p) ==
    /\ pc[p] = "sms_return"
    /\ frame' = [frame EXCEPT ![p] = EmptyFrame]
    /\ pc' = [pc EXCEPT ![p] = "idle"]
    /\ UNCHANGED <<db, session, nextId>>

PhoneProcs == {1}

NextPhone ==
    \E p \in PhoneProcs :
        \/ \E to_number \in PhoneNumbers, client \in BOOLEAN, outcome \in ChannelOutcomes :
              SendSms(p, to_number, client, outcome)
        \/ SmsReturn(p)

SpecPhone == Init /\ [][NextPhone]_vars

\* ------------------------------------------- retry_failed with any limit
\* POST /notifications/retry takes limit as a plain int: any integer passes.
RetryLimits == {-1, 0, 1, 2, 100}

\* retry_failed_notifications(limit): the fetch, with the limit kept.
RetryFetchLimit(p, limit) ==
    /\ pc[p] = "idle"
    /\ LET cands == get_pending_notifications(db, limit)
           ids == {cands[k] : k \in 1..Len(cands)}
       IN /\ session' = [session EXCEPT ![p] = [i \in ids |-> db[i]]]
          /\ frame' = [frame EXCEPT ![p] =
                         [EmptyFrame EXCEPT !.op = "retry", !.cands = cands, !.idx = 1,
                                            !.limit = limit]]
    /\ pc' = [pc EXCEPT ![p] = "retry_loop"]
    /\ UNCHANGED <<db, nextId>>

LimitStep(p) ==
    \/ \E limit \in RetryLimits : RetryFetchLimit(p, limit)
    \/ RetryIncrement(p)
    \/ \E outcome \in ChannelOutcomes : RetryDeliver(p, outcome)
    \/ RetryMark(p)
    \/ RetryAppend(p)
    \/ RetryReturn(p)

NextLimit == \E p \in QueryProcs : LimitStep(p)

\* Passes over tables drawn as for the query.
SpecLimit == InitQuery /\ [][NextLimit]_vars

\* ------------------------------------------------- all operations together
\* Every dispatcher operation, with concurrent handlers and a store that can
\* fail: single sends and retry passes by either handler, bulk sends, alert
\* fan-outs and statistics by the batch handler.
MaxPair == 2           \* rows the handlers create between them

PairRequests == SeqsUpTo({PlainRequest}, MaxPair) \ {<<>>}

\* send_bulk_notifications, for as many requests as rows are left.
PairStart(p, requests) ==
    /\ nextId + Len(requests) - 1 <= MaxPair
    /\ BulkStart(p, requests)

\* The channel accepts or refuses (a raise counts as a refusal).
PairOutcomes == {"true", "false"}

\* What the batch handler runs besides retry passes.
DispatchStep(p) ==
    \/ SendCreate(p, PlainRequest, DefaultMaxRetries)
    \/ \E outcome \in PairOutcomes : SendDeliver(p, outcome)
    \/ SendMark(p)
    \/ SendReturn(p)
    \/ \E requests \in PairRequests : PairStart(p, requests)
    \/ AlertStart(p, <<Recipient>>, <<EMAIL, SMS>>)
    \/ BatchCreate(p)
    \/ BatchCreateRaises(p)
    \/ \E outcome \in PairOutcomes : BatchDeliver(p, outcome)
    \/ BatchMark(p)
    \/ BatchReturn(p)
    \/ GetStats(p)
    \/ StatsReturn(p)

\* A retry pass, with the store failing or not.
PassStep(p) ==
    \/ \E limit \in Limits : RetryFetch(p, limit)
    \/ RetryIncrement(p)
    \/ \E outcome \in PairOutcomes : RetryDeliver(p, outcome)
    \/ RetryMark(p)
    \/ RetryAppend(p)
    \/ RetryReturn(p)
    \/ \E fault \in StoreFaults : RetryIncrementFails(p, fault)
    \/ \E fault \in StoreFaults : RetryMarkFails(p, fault)

\* The batch handler dispatches while the other handlers run retry passes.
NextAll ==
    \/ \E p \in BatchProcs : DispatchStep(p)
    \/ \E p \in Procs \ BatchProcs : PassStep(p)

SpecAll == Init /\ [][NextAll]_vars

\* ------------------------------------------------ concurrent handlers
\* Single sends of the plain request and retry passes, by handlers running
\* at the same time over a store that can fail.
RaceStep(p) ==
    \/ SendCreate(p, PlainRequest, DefaultMaxRetries)
    \/ \E outcome \in PairOutcomes : SendDeliver(p, outcome)
    \/ SendMark(p)
    \/ SendReturn(p)
    \/ \E fault \in StoreFaults : SendMarkFails(p, fault)
    \/ PassStep(p)

NextRace == \E p \in Procs : RaceStep(p)

SpecRace == Init /\ [][NextRace]_vars

\* -------------------------------------------------------------- claims
\* The object send_notification hands back (the call created a record).
Returned(p) == session[p][frame[p].result[1]]

SendReturns(p) == pc[p] = "send_return" /\ frame[p].result # <<>>

\* C1: a send whose channel call succeeded returns a record that is SENT,
\* has sent_at set and retry_count 0; the committed row says the same.
C1_SuccessfulSend ==
    \A p \in Procs :
        (SendReturns(p) /\ frame[p].success) =>
            /\ Returned(p).status = SENT
            /\ Returned(p).sent_at # None
            /\ Returned(p).retry_count = 0
            /\ db[Returned(p).id] = Returned(p)

C1_Witness ==
    \E p \in Procs : SendReturns(p) /\ frame[p].success /\ Returned(p).status = SENT

\* C2: a send whose channel call failed returns a record that is FAILED,
\* has failed_at set, a non-empty error_message and retry_count 0.
C2_FailedSend ==
    \A p \in Procs :
        (SendReturns(p) /\ ~frame[p].success) =>
            /\ Returned(p).status = FAILED
            /\ Returned(p).failed_at # None
            /\ Returned(p).error_message # None
            /\ Returned(p).retry_count = 0

\* C3: when a retry pass has finished with a candidate, the candidate's
\* retry_count is one more than when the pass picked it up, whether the
\* re-attempt succeeded or failed.
C3_RetryAddsOne ==
    \A p \in Procs :
        pc[p] = "retry_append" =>
            session[p][frame[p].cur].retry_count = frame[p].before + 1

\* Terminal failure: FAILED with the retry budget used up.
Terminal(n) == n.status = FAILED /\ n.retry_count >= n.max_retries

Range(seq) == {seq[k] : k \in 1..Len(seq)}

C5_TerminalNotRetried ==
    [][\A id \in DOMAIN db :
         Terminal(db[id]) =>
            /\ \A p \in Procs :
                  (pc[p] = "idle" /\ pc'[p] = "retry_loop") =>
                      id \notin Range(frame'[p].cands)
            /\ (\A p \in Procs : id \notin Range(frame[p].cands)) =>
                  /\ db'[id] = db[id]
                  /\ \A p \in Procs : frame'[p].op = "retry" => frame'[p].cur # id]_vars

C5_Witness ==
    \E id \in DOMAIN db, p \in Procs :
        /\ Terminal(db[id])
        /\ pc[p] = "retry_loop"
        /\ frame[p].idx = 1
        /\ id \notin Range(frame[p].cands)
        /\ \A q \in Procs \ {p} : pc[q] = "idle"

\* C6: after a failed retry attempt the record reads "Max retries exceeded"
\* if the incremented retry_count reached max_retries; otherwise it reads the
\* generic retry message and is still eligible for the next pass.
C6_ExhaustionLabel ==
    \A p \in Procs :
        (pc[p] = "retry_append" /\ ~frame[p].success) =>
            LET n == session[p][frame[p].cur]
            IN IF frame[p].before + 1 >= n.max_retries
               THEN n.error_message = MaxRetriesExceeded
               ELSE n.error_message = RetryAttemptFailed /\ Eligible(n)

\* The status transitions of the state machine.
Transitions ==
    { <<PENDING, SENT>>, <<PENDING, FAILED>>, <<SENT, DELIVERED>>,
      <<FAILED, RETRYING>>, <<RETRYING, SENT>>, <<RETRYING, FAILED>> }

\* C7: every change of a row's status is one of the transitions (a row is
\* PENDING before it first appears in the table).
C7_OnlyTransitions ==
    [][\A id \in DOMAIN db' :
         LET old == IF id \in DOMAIN db THEN db[id].status ELSE PENDING
         IN db'[id].status # old => <<old, db'[id].status>> \in Transitions]_vars

\* C8: a row that is SENT never becomes RETRYING, FAILED or PENDING.
C8_SentIsTerminal ==
    [][\A id \in DOMAIN db :
         db[id].status = SENT => db'[id].status \notin {RETRYING, FAILED, PENDING}]_vars

\* C9: once the record was created, send returns it whatever the channel call
\* did, and it is FAILED when the channel returned False or raised.
C9_SendReturnsRecord ==
    \A p \in Procs :
        (pc[p] = "send_return" /\ frame[p].cur # 0) =>
            /\ frame[p].result = <<frame[p].cur>>
            /\ frame[p].outcome \in {"false", "raise"} => Returned(p).status = FAILED

C9_Witness ==
    \E p \in Procs :
        /\ SendReturns(p)
        /\ frame[p].outcome = "raise"
        /\ Returned(p).status = FAILED

\* C10: when the channel call raised, the FAILED record carries the
\* exception's message.
C10_ExceptionMessageKept ==
    \A p \in Procs :
        (SendReturns(p) /\ frame[p].outcome = "raise") =>
            Returned(p).error_message = ExceptionMessage

\* C11: when a retry pass has gone through its list, every candidate it
\* fetched is in the list it returns, also when the store raised while the
\* candidate was being processed.
C11_NoCandidateDropped ==
    \A p \in Procs :
        (pc[p] = "retry_loop" /\ frame[p].idx > Len(frame[p].cands)) =>
            Range(frame[p].cands) \subseteq Range(frame[p].result)

\* A batch call has gone through its list and is about to return.
BatchDone(p, op) ==
    /\ frame[p].op = op
    /\ pc[p] = "batch_loop"
    /\ frame[p].idx > Len(frame[p].requests)

\* The request passes NotificationCreate and create() when sent by itself.
Creatable(request) == ~ValidationFails(request) /\ ~CreateRaises(request)

\* C12: when send_bulk_notifications has gone through its list, every request
\* that is creatable by itself has yielded a record, whatever happened to the
\* requests before it; the returned list holds exactly the records the call
\* created, and they are in the table.
C12_BulkIsolation ==
    \A p \in BatchProcs :
        BatchDone(p, "bulk") =>
            /\ Len(frame[p].result) =
                  Cardinality({i \in 1..Len(frame[p].requests) : Creatable(frame[p].requests[i])})
            /\ Range(frame[p].result) = DOMAIN session[p]
            /\ Range(frame[p].result) \subseteq DOMAIN db

Malformed(payload) ==
    \/ payload.notification_type = None
    \/ payload.recipient = None
    \/ payload.message = None /\ payload.template_name = None

\* C14: no record is created for a malformed send request: the handler that
\* got it holds no notification, at any point of the call.
C14_ValidationFirst ==
    \A p \in ApiProcs :
        (frame[p].op = "send" /\ frame[p].requests # <<>>
                             /\ Malformed(frame[p].requests[1])) =>
            frame[p].cur = 0 /\ session[p] = <<>>

\* C15: when send_notification is about to return, it returns None only if
\* the table holds no row for the request, and it returns the record whenever
\* the table holds one; also when the store raised in the mark step.
C15_NoneMeansNoRecord ==
    \A p \in Procs :
        pc[p] = "send_return" =>
            /\ frame[p].result = <<>> => frame[p].cur \notin DOMAIN db
            /\ frame[p].cur \in DOMAIN db => frame[p].result = <<frame[p].cur>>

\* Rows of the table that are PENDING, or FAILED with retry budget left.
RetryableIds ==
    {id \in DOMAIN db :
        \/ db[id].status = PENDING
        \/ db[id].status = FAILED /\ db[id].retry_count < db[id].max_retries}

Min(a, b) == IF a < b THEN a ELSE b

\* C16: the query returns only rows that are PENDING, or FAILED with
\* retry_count < max_retries, each once, and all of them up to the limit; a
\* SENT, DELIVERED or RETRYING row is never returned.
C16_SelectsEligible ==
    \A p \in QueryProcs :
        pc[p] = "query_return" =>
            LET selected == Range(frame[p].cands)
            IN /\ selected \subseteq RetryableIds
               /\ Cardinality(selected) = Len(frame[p].cands)
               /\ Len(frame[p].cands) = Min(frame[p].limit, Cardinality(RetryableIds))
               /\ \A id \in selected : db[id].status \notin {SENT, DELIVERED, RETRYING}

C16_Witness ==
    \E p \in QueryProcs :
        /\ pc[p] = "query_return"
        /\ frame[p].limit = 100
        /\ \E a, b \in DOMAIN db :
              /\ a \in Range(frame[p].cands) /\ db[a].status = FAILED
              /\ b \notin Range(frame[p].cands) /\ db[b].status = FAILED

\* The priority tiers, lowest to highest.
Tier(priority) ==
    CASE priority = LOW -> 1
      [] priority = MEDIUM -> 2
      [] priority = HIGH -> 3
      [] priority = URGENT -> 4

\* C17: the returned list is ordered highest tier first (URGENT, HIGH, MEDIUM,
\* LOW) and oldest first within a tier, and when the limit cuts the list no
\* selected row has a lower tier than a retryable row left out.
C17_PriorityOrder ==
    \A p \in QueryProcs :
        pc[p] = "query_return" =>
            LET cands == frame[p].cands
            IN /\ \A i, j \in 1..Len(cands) :
                     i < j =>
                        \/ Tier(db[cands[i]].priority) > Tier(db[cands[j]].priority)
                        \/ /\ Tier(db[cands[i]].priority) = Tier(db[cands[j]].priority)
                           /\ db[cands[i]].created_at < db[cands[j]].created_at
               /\ \A a \in Range(cands), b \in RetryableIds \ Range(cands) :
                     Tier(db[a].priority) >= Tier(db[b].priority)

\* Pass p has run increment_retry_count on the record and has not marked it.
InHand(p, id) ==
    /\ frame[p].op = "retry"
    /\ frame[p].cur = id
    /\ pc[p] \in {"retry_deliver", "retry_mark"}

CountWhere(P(_)) == Cardinality({id \in DOMAIN db : P(db[id])})

IsRetried(n) == n.retry_count > 0
IsPending(n) == n.status = PENDING
IsSent(n) == n.status = SENT
IsFailed(n) == n.status = FAILED
IsEmail(n) == n.notification_type = EMAIL
IsSms(n) == n.notification_type = SMS

\* C19: the statistics report the table's total, its PENDING, SENT and FAILED
\* counts and its e-mail and SMS counts, and retry_rate is the number of rows
\* with retry_count > 0 over the total, times 100, or 0 for an empty table.
C19_Statistics ==
    \A p \in StatsProcs :
        pc[p] = "stats_return" =>
            LET stats == frame[p].stats
                total == Cardinality(DOMAIN db)
            IN /\ stats.total_notifications = total
               /\ stats.pending_notifications = CountWhere(IsPending)
               /\ stats.sent_notifications = CountWhere(IsSent)
               /\ stats.failed_notifications = CountWhere(IsFailed)
               /\ stats.email_notifications = CountWhere(IsEmail)
               /\ stats.sms_notifications = CountWhere(IsSms)
               /\ IF total = 0
                  THEN stats.retry_rate[1] = 0
                  ELSE stats.retry_rate[1] * total
                         = CountWhere(IsRetried) * 100 * stats.retry_rate[2]

\* Ten rows, three of them retried: the rate is 30.
C19_Witness ==
    \E p \in StatsProcs :
        /\ pc[p] = "stats_return"
        /\ Cardinality(DOMAIN db) = 10
        /\ CountWhere(IsRetried) = 3
        /\ frame[p].stats.retry_rate = <<30, 1>>

\* C20: without an SMS client the probe reports sms_service false, and a send
\* of any SMS request that is about to return has created a record, the
\* record is FAILED, and the provider was not called.
C20_SmsUnavailable ==
    \A p \in SmsProcs :
        /\ (pc[p] = "test_return" /\ ~frame[p].client) => ~frame[p].probe.sms_service
        /\ (pc[p] = "send_return" /\ ~frame[p].client) =>
              /\ frame[p].cur \in DOMAIN db
              /\ db[frame[p].cur].status = FAILED
              /\ frame[p].provider_calls = 0

\* The call is a send of a request whose template name is unknown.
UnknownTemplateSend(p) ==
    /\ frame[p].op = "send"
    /\ frame[p].requests # <<>>
    /\ frame[p].requests[1].template_name = UnknownTemplate

\* C21: a send of a request with an unknown template name does not contact
\* the transport, and when it is about to return it returns a record that is
\* FAILED with an error_message.
C21_UnknownTemplate ==
    \A p \in Procs :
        UnknownTemplateSend(p) =>
            /\ frame[p].provider_calls = 0
            /\ pc[p] = "send_return" =>
                  /\ frame[p].result = <<frame[p].cur>>
                  /\ frame[p].cur \in DOMAIN db
                  /\ db[frame[p].cur].status = FAILED
                  /\ db[frame[p].cur].error_message # None

\* '+' followed by at least 10 digits.
Normalized(number) ==
    /\ Len(number) >= 11
    /\ number[1] = "+"
    /\ \A k \in 2..Len(number) : number[k] \in Digits

\* Fewer than 9 digits are left when everything but digits is stripped.
TooShort(number) == Len(SelectSeq(number, IsDigit)) < 9

\* C22: send_sms calls the provider only with '+' and at least 10 digits;
\* "0700000000" goes out as "+256700000000"; a number with too few digits,
\* or none, makes it return false without a provider call.
C22_PhoneNormalization ==
    \A p \in PhoneProcs :
        pc[p] = "sms_return" =>
            /\ frame[p].provider_calls > 0 => Normalized(frame[p].sent_to)
            /\ (frame[p].client /\ frame[p].to_number = LocalNumber) =>
                  frame[p].sent_to = InternationalNumber
            /\ TooShort(frame[p].to_number) =>
                  /\ ~frame[p].success
                  /\ frame[p].outcome = "false"
                  /\ frame[p].provider_calls = 0

C22_Witness ==
    \E p \in PhoneProcs :
        /\ pc[p] = "sms_return"
        /\ frame[p].to_number = LocalNumber
        /\ frame[p].provider_calls = 1
        /\ frame[p].sent_to = InternationalNumber

FirstAttemptFails(id) == id \notin DOMAIN db /\ db'[id].status = FAILED

SecondAttemptFails(id) ==
    /\ id \in DOMAIN db
    /\ db[id].status = RETRYING
    /\ db[id].error_message = FailedToSend
    /\ db'[id].status = FAILED

\* C24: a record whose attempts all fail stays retry-eligible until it has
\* been attempted 1 + max_retries times: after the first failed attempt it is
\* eligible exactly if max_retries >= 1, after the second exactly if
\* max_retries >= 2.
C24_AttemptsBeforeExhaustion ==
    [][\A id \in DOMAIN db' :
         /\ FirstAttemptFails(id) => (Eligible(db'[id]) <=> db'[id].max_retries >= 1)
         /\ SecondAttemptFails(id) => (Eligible(db'[id]) <=> db'[id].max_retries >= 2)]_vars

\* C25: a retry pass called with limit fetches at most limit records and
\* processes at most limit records (none for a limit of 0 or less).
C25_AtMostLimit ==
    \A p \in QueryProcs :
        frame[p].op = "retry" =>
            LET most == IF frame[p].limit > 0 THEN frame[p].limit ELSE 0
            IN /\ Len(frame[p].cands) <= most
               /\ Len(frame[p].result) <= most

\* The columns a record keeps from its creation on.
ImmutableColumns ==
    {"id", "notification_type", "recipient", "priority", "max_retries",
     "template_name", "context_data"}

\* C26: no step removes a row from the table, and no step changes a row's
\* id, notification_type, recipient, priority, max_retries, template_name or
\* context_data.
C26_ImmutableColumns ==
    [][\A id \in DOMAIN db :
         /\ id \in DOMAIN db'
         /\ \A c \in ImmutableColumns : db'[id][c] = db[id][c]]_vars

C26_Witness ==
    \E a, b \in DOMAIN db :
        /\ a # b
        /\ db[a].status = SENT /\ db[a].retry_count > 0
        /\ db[b].status = FAILED /\ db[b].retry_count >= db[b].max_retries

\* The handler takes the step.
Acts(p) == pc'[p] # pc[p] \/ frame'[p] # frame[p]

\* The record the handler's next repository call is for (0: none).
Target(p) ==
    IF frame[p].cur # 0 THEN frame[p].cur
    ELSE IF pc[p] = "retry_loop" /\ frame[p].idx <= Len(frame[p].cands)
         THEN frame[p].cands[frame[p].idx]
         ELSE 0

\* C27: a step changes no row but the one its handler's mutator is applied
\* to: every field of every other row is as before, under every interleaving
\* of sends and retry passes.
C27_NoInterference ==
    [][\A b \in DOMAIN db :
         db'[b] # db[b] => \E p \in Procs : Acts(p) /\ Target(p) = b]_vars

\* A bulk send has marked its second record while holding an out-of-date
\* copy of its first, which a retry pass has changed in the meantime.
C27_Witness ==
    \E p \in BatchProcs :
        /\ frame[p].op = "bulk"
        /\ Len(frame[p].result) = 2
        /\ frame[p].result[2] \in DOMAIN db
        /\ session[p][frame[p].result[1]] # db[frame[p].result[1]]

\* C28: in every state a SENT row has sent_at set and a FAILED row has
\* failed_at set and an error_message that is not empty; and sent_at becomes
\* set only in a step that makes the row SENT, so a row that was never SENT
\* has none.
C28_TimestampsFollowStatus ==
    /\ [](\A id \in DOMAIN db :
            /\ db[id].status = SENT => db[id].sent_at # None
            /\ db[id].status = FAILED =>
                  /\ db[id].failed_at # None
                  /\ db[id].error_message \notin {None, ""})
    /\ [][\A id \in DOMAIN db' :
            (db'[id].sent_at # None /\ (id \in DOMAIN db => db[id].sent_at = None)) =>
                db'[id].status = SENT]_vars

\* A row that was SENT and has failed since (a late pass went over it).
C28_Witness ==
    \E id \in DOMAIN db :
        /\ db[id].status = FAILED
        /\ db[id].sent_at # None
        /\ db[id].failed_at # None

\* In this step the channel accepts a delivery of the record handler p has
\* in hand.
Accepts(p) ==
    /\ pc[p] \in {"send_deliver", "retry_deliver"}
    /\ pc'[p] \in {"send_mark", "retry_mark"}
    /\ frame'[p].success

\* C29: the channel accepts a delivery of a record only if it has accepted
\* none of that record before: the row does not carry a sent_at, and no
\* other handler holds an accepted delivery of the record that it has yet to
\* mark.
C29_NoDuplicateDelivery ==
    [][\A p \in Procs :
         Accepts(p) =>
            LET id == frame[p].cur
            IN /\ id \in DOMAIN db => db[id].sent_at = None
               /\ \A q \in Procs \ {p} : ~(frame[q].cur = id /\ frame[q].success)]_vars

\* The retry pass of handler p has gone through its list and returns.
PassDone(p) ==
    /\ frame[p].op = "retry"
    /\ pc[p] = "retry_loop"
    /\ frame[p].idx > Len(frame[p].cands)

\* C30: when a retry pass returns, no record it fetched is RETRYING, unless
\* another pass has the record in hand at that moment; also when the store
\* raised while the record was being processed.
C30_NoneLeftRetrying ==
    \A p \in Procs :
        PassDone(p) =>
            \A id \in Range(frame[p].cands) :
                db[id].status = RETRYING => \E q \in Procs \ {p} : InHand(q, id)

====
